---- MODULE Spec2Model ----
(***************************************************************************)
(* Model of examples/terminal.rs: an interactive field-of-view demo.       *)
(* A Map holds two boolean planes (opaque, visible); four systems run once *)
(* per frame: toggle_walls, update_cursor_pos, update_view_range and the   *)
(* read-only update_terminal_from_map (not modelled: it writes only the    *)
(* terminal).  The systems are added without ordering constraints, so the  *)
(* scheduler may run them in any order inside a frame; systems that touch  *)
(* the same resource never overlap, so each run is one atomic step.        *)
(***************************************************************************)
EXTENDS Integers, Sequences, FiniteSets, TLC

\* ---------------------------------------------------------------- bounds
\* Width of the grid handed to Map::new (the program uses (30,30)); the
\* model's grid has two rows.
GridW == 1
\* Window size in pixels.
WinW == 4
WinH == 2
\* Most scroll events delivered in one frame.
MaxEvents == 2
\* How far below its initial value the view range may be scrolled.
MaxNarrow == 1
\* The same, for the runs that scroll the view range down past zero.
MaxDeep == 6

\* ------------------------------------------------------------- constants
InitViewRange == 5
NumWalls == 100
\* Side of the grid the program creates in setup.
TerminalSide == 30

\* ------------------------------------------------------------ data types
IVec2(x, y) == [x |-> x, y |-> y]

\* Option::None
NoPos == [none |-> TRUE]

\* `as usize` of an i32: a negative value wraps around the top of the usize
\* range and lands far beyond the length of any Vec.  TLC's integers are
\* 32 bits wide, so the modulus stands at 2^31 - 1 in place of 2^64; the
\* wrapped index is out of range of every Vec of the model either way.
UsizeModulus == 2147483647
AsUsize(v) == v % UsizeModulus

VecOf(len, b) == [i \in 0..(len - 1) |-> b]

size == [w |-> GridW, h |-> 2]

Map_new(sz) ==
    LET len == AsUsize(sz.w * sz.h)
    IN  [visible_points |-> VecOf(len, FALSE),
         opaque_points  |-> VecOf(len, FALSE),
         width  |-> sz.w,
         height |-> sz.h]

to_index(m, p) == AsUsize(p.y * m.width + p.x)

\* Indexing a Vec outside 0..len-1 panics.
IndexPanics(vec, i) == i \notin DOMAIN vec

is_in_bounds(m, p) ==
    p.x >= 0 /\ p.x < m.width /\ p.y >= 0 /\ p.y < m.height

\* Variant: the stored bit is read without the bounds check.
is_visible_unchecked(m, x, y) ==
    LET i == to_index(m, IVec2(x, y))
    IN  IF IndexPanics(m.visible_points, i) THEN FALSE ELSE m.visible_points[i]

is_visible(m, x, y) ==
    LET p == IVec2(x, y)
    IN  IF ~is_in_bounds(m, p) THEN FALSE
        ELSE m.visible_points[to_index(m, p)]

is_opaque(m, p) ==
    IF ~is_in_bounds(m, p) THEN TRUE
    ELSE m.opaque_points[to_index(m, p)]

toggle_opaque_panics(m, p) == IndexPanics(m.opaque_points, to_index(m, p))

\* Variant: the bit is set instead of flipped.
toggle_opaque_sets(m, p) ==
    LET i == to_index(m, p)
    IN  IF IndexPanics(m.opaque_points, i) THEN m
        ELSE [m EXCEPT !.opaque_points[i] = TRUE]

\* Variant: the toggle also marks the cell visible.
toggle_opaque_marks(m, p) ==
    LET i == to_index(m, p)
    IN  IF IndexPanics(m.opaque_points, i) THEN m
        ELSE [m EXCEPT !.opaque_points[i] = ~m.opaque_points[i],
                       !.visible_points[i] = TRUE]

toggle_opaque(m, p) ==
    LET i == to_index(m, p)
    IN  IF IndexPanics(m.opaque_points, i) THEN m
        ELSE [m EXCEPT !.opaque_points[i] = ~m.opaque_points[i]]

\* Variant: the fresh vector is stored into the other plane.
clear_visible_other_plane(m) ==
    LET len == m.width * m.height
    IN  [m EXCEPT !.opaque_points = VecOf(AsUsize(len), FALSE)]

\* Variant: the fresh vector has one row's length.
clear_visible_one_row(m) ==
    [m EXCEPT !.visible_points = VecOf(AsUsize(m.width), FALSE)]

clear_visible(m) ==
    LET len == m.width * m.height
    IN  [m EXCEPT !.visible_points = VecOf(AsUsize(len), FALSE)]

set_visible_panics(m, p) ==
    is_in_bounds(m, p) /\ IndexPanics(m.visible_points, to_index(m, p))

\* Variant: no bounds check before indexing.
set_visible_unchecked(m, p) ==
    LET i == to_index(m, p)
    IN  IF IndexPanics(m.visible_points, i) THEN m
        ELSE [m EXCEPT !.visible_points[i] = TRUE]

set_visible(m, p) ==
    IF ~is_in_bounds(m, p) THEN m
    ELSE LET i == to_index(m, p)
         IN  IF IndexPanics(m.visible_points, i) THEN m
             ELSE [m EXCEPT !.visible_points[i] = TRUE]

\* Squared Euclidean distance (dist compares distances; squares keep it exact).
dist_sq(a, b) == (a.x - b.x) * (a.x - b.x) + (a.y - b.y) * (a.y - b.y)

\* Variant: the result is clamped into the grid.
world_to_map_clamped(m, world) ==
    LET cx == world.x + m.width \div 2
        cy == world.y + m.height \div 2
        clamp(v, hi) == IF v < 0 THEN 0 ELSE IF v > hi THEN hi ELSE v
    IN  IVec2(clamp(cx, m.width - 1), clamp(cy, m.height - 1))

world_to_map(m, world) ==
    LET half_w == m.width \div 2
        half_h == m.height \div 2
    IN  IVec2(world.x + half_w, world.y + half_h)

\* --------------------------------------------------- coordinate pipeline
window_size == [x |-> WinW, y |-> WinH]

\* Orthographic half extents of the tiled camera, in tiles: the camera is
\* centred on the world origin and shows the whole grid, plus one tile on
\* either side horizontally.
camera_half == [x |-> (size.w + 1) \div 2 + 1, y |-> (size.h + 1) \div 2]

\* Screen positions delivered by the window, in half pixels (0.5 px steps),
\* from one pixel before the window to one pixel past its far edge.
ScreenPositions ==
    {IVec2(hx, hy) : hx \in (-2)..(2 * WinW + 2), hy \in (-2)..(2 * WinH + 2)}

\* ndc = (screen_pos / window_size) * 2 - 1, kept exact as a numerator over
\* the denominator window_size (per axis); screen_pos is in half pixels, so
\* (h/2) / w * 2 - 1 = (h - w) / w.
ndc_of(screen_pos) ==
    [x |-> screen_pos.x - window_size.x,
     y |-> screen_pos.y - window_size.y]

\* Lane-wise comparisons of ndc against a constant c (ndc >= c, ndc < c).
cmpge(ndc, c) == [x |-> ndc.x >= c * window_size.x, y |-> ndc.y >= c * window_size.y]
cmplt(ndc, c) == [x |-> ndc.x < c * window_size.x, y |-> ndc.y < c * window_size.y]
any(mask) == mask.x \/ mask.y
not(mask) == [x |-> ~mask.x, y |-> ~mask.y]

\* Variant: the upper edge compared with <= instead of <.
screen_to_world_inclusive(screen_pos) ==
    LET ndc == ndc_of(screen_pos)
        below_min == not(cmpge(ndc, -1))
        above_max == [x |-> ndc.x > window_size.x, y |-> ndc.y > window_size.y]
    IN  IF any(below_min) \/ any(above_max) THEN NoPos
        ELSE [x |-> ndc.x * camera_half.x, y |-> ndc.y * camera_half.y]

\* World position as a pair of rationals: numerators nx, ny over the
\* denominators window_size.x, window_size.y; NoPos when rejected.
screen_to_world(screen_pos) ==
    LET ndc == ndc_of(screen_pos)
        below_min == not(cmpge(ndc, -1))
        above_max == not(cmplt(ndc, 1))
    IN  IF any(below_min) \/ any(above_max) THEN NoPos
        ELSE [x |-> ndc.x * camera_half.x, y |-> ndc.y * camera_half.y]

\* pos.truncate().floor().as_i32()
floor_as_i32(world_pos) ==
    IVec2(world_pos.x \div window_size.x, world_pos.y \div window_size.y)

\* ------------------------------------------------ visibility computation
\* fov::compute lives in the library crate.  It marks the origin and every
\* cell within `range` of it whose line of sight from the origin crosses no
\* opaque cell, through set_visible alone; it asks is_opaque and dist.
Reach == {IVec2(x, y) : x \in (-1)..size.w, y \in (-1)..size.h}

Between(o, p, q) ==
    LET cross == (q.x - o.x) * (p.y - o.y) - (q.y - o.y) * (p.x - o.x)
        dot   == (q.x - o.x) * (p.x - o.x) + (q.y - o.y) * (p.y - o.y)
    IN  q # o /\ q # p /\ cross = 0 /\ dot > 0 /\ dot < dist_sq(o, p)

Lit(origin, range, m) ==
    {origin} \cup
    {p \in Reach : /\ range > 0
                   /\ dist_sq(origin, p) <= range * range
                   /\ \A q \in Reach : Between(origin, p, q) => ~is_opaque(m, q)}

RECURSIVE set_visible_all(_, _)
set_visible_all(m, ps) ==
    IF ps = {} THEN m
    ELSE LET p == CHOOSE q \in ps : TRUE
         IN  set_visible_all(set_visible(m, p), ps \ {p})

compute(origin, range, m) == set_visible_all(m, Lit(origin, range, m))

\* ------------------------------------------------------------------ state
VARIABLES
    map,                 \* the Map resource
    cursor_pos,          \* the CursorPos resource: cached world cell
    view_range,          \* the ViewRange resource
    view_range_changed,  \* ViewRange was written (or inserted) after
                         \* update_cursor_pos last ran: what is_changed()
                         \* reports there; every run of the system, whatever
                         \* path it takes, ends the interval it looks back on
    started,             \* the startup system (setup) has run
    ran,                 \* systems that already ran in the current frame
    panicked,            \* a Vec index was out of range
    computed,            \* arguments of the latest fov::compute call
    pointer_seen,        \* update_cursor_pos has processed a position inside
                         \* the viewport at least once
    ev,                  \* what the latest system run did
    call                 \* the latest direct call of a Map method or of a
                         \* coordinate function: operation, argument, result

vars == <<map, cursor_pos, view_range, view_range_changed, started, ran,
          panicked, computed, pointer_seen, ev, call>>

Systems == {"toggle_walls", "update_cursor_pos", "update_view_range"}

NoCompute == [none |-> TRUE]

NoEv == [sys |-> "init", ptr |-> "none", cell |-> IVec2(0, 0),
         recompute |-> FALSE, wrote_cursor |-> FALSE, dropped |-> FALSE,
         click |-> FALSE, all_zero |-> TRUE]

Ev(sys) == [NoEv EXCEPT !.sys = sys]

NoCall == [op |-> "none", arg |-> NoPos, ret |-> NoPos, before |-> FALSE]

\* --------------------------------------------------------------- systems
\* place_walls: the loop over the drawn coordinates, one toggle per draw,
\* from draw i on; a panic ends it.
RECURSIVE place_walls_from(_, _, _)
place_walls_from(m, draws, i) ==
    IF i > Len(draws) \/ toggle_opaque_panics(m, draws[i]) THEN m
    ELSE place_walls_from(toggle_opaque(m, draws[i]), draws, i + 1)

RECURSIVE place_walls_panics_from(_, _, _)
place_walls_panics_from(m, draws, i) ==
    IF i > Len(draws) THEN FALSE
    ELSE IF toggle_opaque_panics(m, draws[i]) THEN TRUE
    ELSE place_walls_panics_from(toggle_opaque(m, draws[i]), draws, i + 1)

place_walls(m, draws) == place_walls_from(m, draws, 1)

place_walls_panics(m, draws) == place_walls_panics_from(m, draws, 1)

\* Variant: the toggle is made without asking is_in_bounds.
toggle_walls_unchecked(m, cp, just_pressed) ==
    IF just_pressed THEN toggle_opaque(m, world_to_map(m, cp)) ELSE m

\* toggle_walls: the Map after the system ran.
toggle_walls(m, cp, just_pressed) ==
    IF just_pressed
    THEN LET p == world_to_map(m, cp)
         IN  IF is_in_bounds(m, p) THEN toggle_opaque(m, p) ELSE m
    ELSE m

toggle_walls_panics(m, cp, just_pressed) ==
    /\ just_pressed
    /\ is_in_bounds(m, world_to_map(m, cp))
    /\ toggle_opaque_panics(m, world_to_map(m, cp))

\* Variant: the visible plane is not cleared before the computation.
update_cursor_pos_no_clear(cp, m, vr, is_changed, cursor_position) ==
    LET idle(ptr) == [cursor_pos |-> cp, wrote_cursor |-> FALSE, map |-> m,
                      ptr |-> ptr, cell |-> cp,
                      recompute |-> FALSE, computed |-> NoCompute]
    IN  IF cursor_position = NoPos THEN idle("none")
        ELSE LET world == screen_to_world(cursor_position)
             IN  IF world = NoPos THEN idle("rejected")
                 ELSE LET pos == floor_as_i32(world)
                      IN  IF cp # pos \/ is_changed
                          THEN LET origin == world_to_map(m, pos)
                               IN  [cursor_pos |-> pos, wrote_cursor |-> TRUE,
                                    map |-> compute(origin, vr, m),
                                    ptr |-> "inside", cell |-> pos,
                                    recompute |-> TRUE,
                                    computed |-> [origin |-> origin, radius |-> vr]]
                          ELSE [idle("inside") EXCEPT !.cell = pos]

\* Variant: the recompute leaves the cached cell as it was.
update_cursor_pos_keeps_cache(cp, m, vr, is_changed, cursor_position) ==
    LET idle(ptr) == [cursor_pos |-> cp, wrote_cursor |-> FALSE, map |-> m,
                      ptr |-> ptr, cell |-> cp,
                      recompute |-> FALSE, computed |-> NoCompute]
    IN  IF cursor_position = NoPos THEN idle("none")
        ELSE LET world == screen_to_world(cursor_position)
             IN  IF world = NoPos THEN idle("rejected")
                 ELSE LET pos == floor_as_i32(world)
                      IN  IF cp # pos \/ is_changed
                          THEN LET cleared == clear_visible(m)
                                   origin  == world_to_map(cleared, pos)
                               IN  [cursor_pos |-> cp, wrote_cursor |-> FALSE,
                                    map |-> compute(origin, vr, cleared),
                                    ptr |-> "inside", cell |-> pos,
                                    recompute |-> TRUE,
                                    computed |-> [origin |-> origin, radius |-> vr]]
                          ELSE [idle("inside") EXCEPT !.cell = pos]

\* update_cursor_pos: cursor_position is NoPos or a screen position.  Yields
\* the new CursorPos and Map and what the run did.
update_cursor_pos(cp, m, vr, is_changed, cursor_position) ==
    LET idle(ptr) == [cursor_pos |-> cp, wrote_cursor |-> FALSE, map |-> m,
                      ptr |-> ptr, cell |-> cp,
                      recompute |-> FALSE, computed |-> NoCompute]
    IN  IF cursor_position = NoPos THEN idle("none")
        ELSE LET world == screen_to_world(cursor_position)
             IN  IF world = NoPos THEN idle("rejected")
                 ELSE LET pos == floor_as_i32(world)
                      IN  IF cp # pos \/ is_changed
                          THEN LET cleared == clear_visible(m)
                                   origin  == world_to_map(cleared, pos)
                               IN  [cursor_pos |-> pos, wrote_cursor |-> TRUE,
                                    map |-> compute(origin, vr, cleared),
                                    ptr |-> "inside", cell |-> pos,
                                    recompute |-> TRUE,
                                    computed |-> [origin |-> origin, radius |-> vr]]
                          ELSE [idle("inside") EXCEPT !.cell = pos]

\* ev.y.ceil() as i32, ev.y in halves.
ceil_as_i32(y) == (y + 1) \div 2

\* Variant: the resource is written before the delta is tested.
RECURSIVE update_view_range_eager(_, _)
update_view_range_eager(vr, events) ==
    IF events = <<>> THEN [view_range |-> vr, written |-> FALSE]
    ELSE LET delta == ceil_as_i32(Head(events))
         IN  IF delta = 0 THEN [view_range |-> vr, written |-> TRUE]
             ELSE LET rest == update_view_range_eager(vr + delta, Tail(events))
                  IN  [view_range |-> rest.view_range, written |-> TRUE]

\* Variant: the view range is kept at 1 or above.
RECURSIVE update_view_range_clamped(_, _)
update_view_range_clamped(vr, events) ==
    IF events = <<>> THEN [view_range |-> vr, written |-> FALSE]
    ELSE LET delta == ceil_as_i32(Head(events))
             next  == IF vr + delta < 1 THEN 1 ELSE vr + delta
         IN  IF delta = 0 THEN [view_range |-> vr, written |-> FALSE]
             ELSE LET rest == update_view_range_clamped(next, Tail(events))
                  IN  [view_range |-> rest.view_range, written |-> TRUE]

\* update_view_range over the frame's events (their y in halves): the new
\* value and whether the resource was written (mutably dereferenced).
RECURSIVE update_view_range(_, _)
update_view_range(vr, events) ==
    IF events = <<>> THEN [view_range |-> vr, written |-> FALSE]
    ELSE LET delta == ceil_as_i32(Head(events))
         IN  IF delta = 0 THEN [view_range |-> vr, written |-> FALSE]
             ELSE LET rest == update_view_range(vr + delta, Tail(events))
                  IN  [view_range |-> rest.view_range, written |-> TRUE]

\* --------------------------------------------------------------- inputs
\* MouseWheel y amounts, in halves: -1.0, -0.5, +0.5.
ScrollYs == {-2, -1, 1}

RECURSIVE SeqsUpTo(_, _)
SeqsUpTo(S, n) ==
    IF n = 0 THEN {<<>>}
    ELSE LET shorter == SeqsUpTo(S, n - 1)
         IN  shorter \cup {Append(q, e) : q \in shorter, e \in S}

ScrollEvents == SeqsUpTo(ScrollYs, MaxEvents)

\* Draws of place_walls' random generator: NumWalls coordinates with x in
\* 0..width-1 and y in 0..height-1.  One sequence for every set of cells
\* that can end up drawn an odd number of times: those cells once each, then
\* the first cell for the rest of the draws.
RECURSIVE SetToSeq(_)
SetToSeq(S) ==
    IF S = {} THEN <<>>
    ELSE LET e == CHOOSE x \in S : TRUE IN <<e>> \o SetToSeq(S \ {e})

WallDraws ==
    LET cells == {IVec2(x, y) : x \in 0..(size.w - 1), y \in 0..(size.h - 1)}
    IN  {SetToSeq(S) \o [i \in 1..(NumWalls - Cardinality(S)) |-> IVec2(0, 0)] :
            S \in {T \in SUBSET cells : /\ Cardinality(T) <= NumWalls
                                       /\ (NumWalls - Cardinality(T)) % 2 = 0}}

\* What window.cursor_position() yields in a frame: nothing, or a position
\* on a whole pixel from the window's origin to its far edge.
PointerInputs ==
    {NoPos} \cup {IVec2(2 * px, 2 * py) : px \in 0..WinW, py \in 0..WinH}

RECURSIVE SumDeltas(_)
SumDeltas(events) ==
    IF events = <<>> THEN 0
    ELSE ceil_as_i32(Head(events)) + SumDeltas(Tail(events))

\* Every event of the frame has delta 0 / some event has.
AllZero(events) == \A i \in 1..Len(events) : ceil_as_i32(events[i]) = 0
HasZero(events) == \E i \in 1..Len(events) : ceil_as_i32(events[i]) = 0

\* A scroll amount (in halves) rounded to an integer away from zero:
\* 0.5 -> 1, -0.5 -> -1.
round_away(y) == IF y >= 0 THEN (y + 1) \div 2 ELSE 0 - ((1 - y) \div 2)

RECURSIVE SumAway(_)
SumAway(events) ==
    IF events = <<>> THEN 0
    ELSE round_away(Head(events)) + SumAway(Tail(events))

RangeLo == InitViewRange - MaxNarrow
RangeHi == InitViewRange

\* The view range stays inside RangeLo..RangeHi after every prefix of the
\* frame's events (keeps the counter finite).
RECURSIVE InRange(_, _)
InRange(vr, events) ==
    /\ vr >= RangeLo /\ vr <= RangeHi
    /\ events # <<>> => InRange(vr + ceil_as_i32(Head(events)), Tail(events))

\* --------------------------------------------------------------- actions
Init ==
    /\ map = Map_new(size)
    /\ cursor_pos = IVec2(0, 0)
    /\ view_range = InitViewRange
    /\ view_range_changed = TRUE
    /\ started = FALSE
    /\ ran = {}
    /\ panicked = FALSE
    /\ computed = NoCompute
    /\ pointer_seen = FALSE
    /\ ev = NoEv
    /\ call = NoCall

\* setup: the Map is created (Init), the walls are placed and the resources
\* are inserted.
Setup ==
    /\ ~started
    /\ \E draws \in WallDraws :
          /\ map' = place_walls(map, draws)
          /\ panicked' = place_walls_panics(map, draws)
    /\ cursor_pos' = IVec2(0, 0)
    /\ view_range' = InitViewRange
    /\ view_range_changed' = TRUE
    /\ started' = TRUE
    /\ ev' = Ev("setup")
    /\ UNCHANGED <<ran, computed, pointer_seen, call>>

Running(sys) == started /\ ~panicked /\ sys \notin ran

ToggleWalls ==
    /\ Running("toggle_walls")
    /\ \E just_pressed \in BOOLEAN :
          /\ map' = toggle_walls(map, cursor_pos, just_pressed)
          /\ panicked' = toggle_walls_panics(map, cursor_pos, just_pressed)
          /\ ev' = [Ev("toggle_walls") EXCEPT !.click = just_pressed]
    /\ ran' = ran \cup {"toggle_walls"}
    /\ UNCHANGED <<cursor_pos, view_range, view_range_changed, started,
                   computed, pointer_seen, call>>

UpdateCursorPos ==
    /\ Running("update_cursor_pos")
    /\ \E cursor_position \in PointerInputs :
        \E r \in {update_cursor_pos(cursor_pos, map, view_range,
                                     view_range_changed, cursor_position)} :
              /\ cursor_pos' = r.cursor_pos
              /\ map' = r.map
              /\ computed' = IF r.recompute THEN r.computed ELSE computed
              /\ pointer_seen' = (pointer_seen \/ r.ptr = "inside")
              /\ ev' = [Ev("update_cursor_pos") EXCEPT
                          !.ptr = r.ptr, !.cell = r.cell,
                          !.recompute = r.recompute,
                          !.wrote_cursor = r.wrote_cursor,
                          !.dropped = \E i \in DOMAIN map.visible_points :
                                         /\ map.visible_points[i]
                                         /\ ~r.map.visible_points[i]]
    /\ view_range_changed' = FALSE
    /\ ran' = ran \cup {"update_cursor_pos"}
    /\ UNCHANGED <<view_range, started, panicked, call>>

UpdateViewRange ==
    /\ Running("update_view_range")
    /\ \E events \in ScrollEvents :
        \E r \in {update_view_range(view_range, events)} :
              /\ InRange(view_range, events)
              /\ view_range' = r.view_range
              /\ view_range_changed' = (view_range_changed \/ r.written)
              /\ ev' = [Ev("update_view_range") EXCEPT
                          !.all_zero = AllZero(events)]
    /\ ran' = ran \cup {"update_view_range"}
    /\ UNCHANGED <<map, cursor_pos, started, panicked, computed,
                   pointer_seen, call>>

EndFrame ==
    /\ started
    /\ ran = Systems
    /\ ran' = {}
    /\ ev' = Ev("end_frame")
    /\ UNCHANGED <<map, cursor_pos, view_range, view_range_changed, started,
                   panicked, computed, pointer_seen, call>>

Next == Setup \/ ToggleWalls \/ UpdateCursorPos \/ UpdateViewRange \/ EndFrame

Spec == Init /\ [][Next]_vars

\* ------------------------------------------- scrolling down past zero
\* The same program followed scroll event by scroll event, with the view
\* range free to go down to InitViewRange - MaxDeep: frames without clicks
\* (toggle_walls does nothing then and is left out), with the pointer absent,
\* on the window's origin or at its centre, and with at most two scroll
\* events per frame.  Here a run of update_view_range also records the
\* frame's events.
DeepLo == InitViewRange - MaxDeep

DeepSystems == {"update_cursor_pos", "update_view_range"}

DeepPointerInputs == {NoPos, IVec2(0, 0), IVec2(WinW, WinH)}

DeepScrollEvents == {<<>>, <<-2>>, <<-2, -2>>, <<1>>, <<-1>>, <<-1, -2>>}

ScrollEv(events) ==
    [sys |-> "update_view_range", ptr |-> "none", cell |-> IVec2(0, 0),
     recompute |-> FALSE, wrote_cursor |-> FALSE, dropped |-> FALSE,
     click |-> FALSE, all_zero |-> AllZero(events), events |-> events]

RECURSIVE DeepInRange(_, _)
DeepInRange(vr, events) ==
    /\ vr >= DeepLo /\ vr <= RangeHi
    /\ events # <<>> => DeepInRange(vr + ceil_as_i32(Head(events)), Tail(events))

DeepUpdateCursorPos ==
    /\ Running("update_cursor_pos")
    /\ \E cursor_position \in DeepPointerInputs :
        \E r \in {update_cursor_pos(cursor_pos, map, view_range,
                                     view_range_changed, cursor_position)} :
              /\ cursor_pos' = r.cursor_pos
              /\ map' = r.map
              /\ computed' = IF r.recompute THEN r.computed ELSE computed
              /\ pointer_seen' = (pointer_seen \/ r.ptr = "inside")
              /\ ev' = [Ev("update_cursor_pos") EXCEPT
                          !.ptr = r.ptr, !.cell = r.cell,
                          !.recompute = r.recompute,
                          !.wrote_cursor = r.wrote_cursor,
                          !.dropped = \E i \in DOMAIN map.visible_points :
                                         /\ map.visible_points[i]
                                         /\ ~r.map.visible_points[i]]
    /\ view_range_changed' = FALSE
    /\ ran' = ran \cup {"update_cursor_pos"}
    /\ UNCHANGED <<view_range, started, panicked, call>>

DeepUpdateViewRange ==
    /\ Running("update_view_range")
    /\ \E events \in DeepScrollEvents :
        \E r \in {update_view_range(view_range, events)} :
              /\ DeepInRange(view_range, events)
              /\ view_range' = r.view_range
              /\ view_range_changed' = (view_range_changed \/ r.written)
              /\ ev' = ScrollEv(events)
    /\ ran' = ran \cup {"update_view_range"}
    /\ UNCHANGED <<map, cursor_pos, started, panicked, computed,
                   pointer_seen, call>>

DeepEndFrame ==
    /\ started
    /\ ran = DeepSystems
    /\ ran' = {}
    /\ ev' = Ev("end_frame")
    /\ UNCHANGED <<map, cursor_pos, view_range, view_range_changed, started,
                   panicked, computed, pointer_seen, call>>

DeepNext ==
    Setup \/ DeepUpdateCursorPos \/ DeepUpdateViewRange \/ DeepEndFrame

DeepSpec == Init /\ [][DeepNext]_vars

\* ------------------------------------------------- the Map on its own
\* The Map type driven directly through its methods, in any order and from
\* any contents: toggle_opaque within bounds (its precondition), set_visible
\* and the queries with any coordinate around the grid.
probe_size == [w |-> GridW + 1, h |-> 2]

Probe == {IVec2(x, y) : x \in (-1)..probe_size.w, y \in (-1)..probe_size.h}

SomeVisible(m) == \E i \in DOMAIN m.visible_points : m.visible_points[i]

MapUnchanged ==
    UNCHANGED <<cursor_pos, view_range, view_range_changed, started, ran,
                computed, pointer_seen, ev>>

MapInit ==
    /\ map = Map_new(probe_size)
    /\ cursor_pos = IVec2(0, 0)
    /\ view_range = InitViewRange
    /\ view_range_changed = TRUE
    /\ started = FALSE
    /\ ran = {}
    /\ panicked = FALSE
    /\ computed = NoCompute
    /\ pointer_seen = FALSE
    /\ ev = NoEv
    /\ call = NoCall

CallToggleOpaque ==
    /\ ~panicked
    /\ \E p \in Probe :
          /\ is_in_bounds(map, p)
          /\ map' = toggle_opaque(map, p)
          /\ panicked' = toggle_opaque_panics(map, p)
          /\ call' = [op |-> "toggle_opaque", arg |-> p, ret |-> NoPos,
                      before |-> is_opaque(map, p)]
    /\ MapUnchanged

CallSetVisible ==
    /\ ~panicked
    /\ \E p \in Probe :
          /\ map' = set_visible(map, p)
          /\ panicked' = set_visible_panics(map, p)
          /\ call' = [op |-> "set_visible", arg |-> p, ret |-> NoPos,
                      before |-> is_visible(map, p.x, p.y)]
    /\ MapUnchanged

CallClearVisible ==
    /\ ~panicked
    /\ map' = clear_visible(map)
    /\ call' = [op |-> "clear_visible", arg |-> NoPos, ret |-> NoPos,
                before |-> SomeVisible(map)]
    /\ UNCHANGED panicked
    /\ MapUnchanged

MapNext == CallToggleOpaque \/ CallSetVisible \/ CallClearVisible

MapSpec == MapInit /\ [][MapNext]_vars

\* --------------------------------------- the coordinate pipeline on its own
\* screen_to_world applied to any screen position, its result floored and
\* re-centred as update_cursor_pos does.
CoordUnchanged ==
    UNCHANGED <<map, cursor_pos, view_range, view_range_changed, started,
                ran, panicked, computed, pointer_seen, ev>>

CallScreenToWorld ==
    /\ \E screen_pos \in ScreenPositions :
          call' = [op |-> "screen_to_world", arg |-> screen_pos,
                   ret |-> screen_to_world(screen_pos), before |-> FALSE]
    /\ CoordUnchanged

CallFloor ==
    /\ call.op = "screen_to_world"
    /\ call.ret # NoPos
    /\ call' = [op |-> "floor", arg |-> call.ret,
                ret |-> floor_as_i32(call.ret), before |-> FALSE]
    /\ CoordUnchanged

CallWorldToMap ==
    /\ call.op = "floor"
    /\ call' = [op |-> "world_to_map", arg |-> call.ret,
                ret |-> world_to_map(map, call.ret), before |-> FALSE]
    /\ CoordUnchanged

CoordNext == CallScreenToWorld \/ CallFloor \/ CallWorldToMap

CoordSpec == Init /\ [][CoordNext]_vars

\* ================================================================ claims
IsCursorRun(e) == e.sys = "update_cursor_pos"

\* C1 -- dirty rule: whenever update_cursor_pos processes a position inside
\* the viewport and either the cell differs from the cached cell or the
\* current radius differs from the radius of the latest computation, that
\* same run clears and recomputes with origin world_to_map(cell) and the
\* current ViewRange value.
C1_DirtyRule ==
    [][ (/\ IsCursorRun(ev') /\ ev'.ptr = "inside"
         /\ \/ ev'.cell # cursor_pos
            \/ (computed # NoCompute /\ computed.radius # view_range))
        => /\ ev'.recompute
           /\ computed' = [origin |-> world_to_map(map, ev'.cell),
                           radius |-> view_range] ]_vars

\* C2 -- the first run of update_cursor_pos that processes a position inside
\* the viewport always recomputes, whatever the cell and however many runs
\* without a pointer came before.
C2_FirstPointerRecomputes ==
    [][ (IsCursorRun(ev') /\ ev'.ptr = "inside" /\ ~pointer_seen)
        => ev'.recompute ]_vars

\* C3 -- right after update_cursor_pos processed a position inside the
\* viewport, the latest computation's origin and radius (once there has been
\* a computation) are the current cursor cell and the current ViewRange value.
C3_SettledConsistent ==
    (IsCursorRun(ev) /\ ev.ptr = "inside" /\ computed # NoCompute)
    => /\ computed.origin = world_to_map(map, ev.cell)
       /\ computed.radius = view_range

\* C4 -- a frame whose scroll events all have delta 0 leaves the radius and
\* its change mark as they were (and touches nothing else), and a run of
\* update_cursor_pos that finds the cell equal to the cached cell and no
\* change mark neither clears nor recomputes and keeps the cached cell.
C4_ZeroDeltaNoRecompute ==
    [][ /\ (ev'.sys = "update_view_range" /\ ev'.all_zero)
            => /\ view_range' = view_range
               /\ view_range_changed' = view_range_changed
               /\ map' = map /\ cursor_pos' = cursor_pos /\ computed' = computed
        /\ (/\ IsCursorRun(ev') /\ ev'.ptr = "inside"
            /\ ev'.cell = cursor_pos /\ ~view_range_changed)
            => /\ ~ev'.recompute
               /\ map' = map /\ cursor_pos' = cursor_pos /\ computed' = computed
      ]_vars

\* C4 witness: update_view_range already ran in this frame without writing,
\* then update_cursor_pos found the pointer on the cached cell and did not
\* recompute, with cells still visible from the earlier computation.
C4_Witness ==
    /\ IsCursorRun(ev) /\ ev.ptr = "inside" /\ ~ev.recompute
    /\ "update_view_range" \in ran
    /\ computed # NoCompute /\ computed.radius = view_range
    /\ SomeVisible(map)

OutOfBounds(m) == {p \in Probe : ~is_in_bounds(m, p)}

\* C5 -- boundary policy: for every coordinate outside the grid is_opaque is
\* true and is_visible is false, whatever the planes hold.
C5_BoundaryPolicy ==
    \A p \in OutOfBounds(map) : is_opaque(map, p) /\ ~is_visible(map, p.x, p.y)

\* C5 witness: an out-of-bounds coordinate whose index falls on a stored cell
\* that is visible and not opaque.
C5_Witness ==
    \E p \in OutOfBounds(map) :
        LET i == to_index(map, p)
        IN  /\ i \in DOMAIN map.visible_points
            /\ map.visible_points[i] /\ ~map.opaque_points[i]

\* C6 -- toggle_opaque on an in-bounds coordinate flips is_opaque there, and
\* applying it again restores the whole map.
C6_ToggleInvolution ==
    [][ call'.op = "toggle_opaque"
        => /\ is_in_bounds(map, call'.arg)
           /\ is_opaque(map', call'.arg) = ~is_opaque(map, call'.arg)
           /\ toggle_opaque(map', call'.arg) = map ]_vars

\* C6 witness: a toggle cleared an opaque cell while another cell is opaque.
C6_Witness ==
    /\ call.op = "toggle_opaque" /\ call.before /\ ~is_opaque(map, call.arg)
    /\ \E i \in DOMAIN map.opaque_points : map.opaque_points[i]

AllInvisible(m) == \A p \in Probe : ~is_visible(m, p.x, p.y)

\* C7 -- after clear_visible every coordinate reads not visible and the
\* opaque plane is as before; that lasts until set_visible is called.
C7_ClearVisible ==
    [][ /\ call'.op = "clear_visible"
            => AllInvisible(map') /\ map'.opaque_points = map.opaque_points
        /\ (AllInvisible(map) /\ call'.op # "set_visible")
            => AllInvisible(map') ]_vars

\* C7 witness: clear_visible ran on a map with visible cells and opaque cells.
C7_Witness ==
    /\ call.op = "clear_visible" /\ call.before
    /\ \E i \in DOMAIN map.opaque_points : map.opaque_points[i]

\* C8 -- set_visible out of bounds changes nothing; in bounds it makes that
\* one cell visible and changes no other visible bit and no opaque bit.
C8_SetVisibleFrame ==
    [][ call'.op = "set_visible"
        => LET p == call'.arg
           IN  IF ~is_in_bounds(map, p) THEN map' = map
               ELSE /\ is_visible(map', p.x, p.y)
                    /\ \A q \in Probe \ {p} :
                          is_visible(map', q.x, q.y) = is_visible(map, q.x, q.y)
                    /\ \A i \in DOMAIN map.visible_points \ {to_index(map, p)} :
                          map'.visible_points[i] = map.visible_points[i]
                    /\ DOMAIN map'.visible_points = DOMAIN map.visible_points
                    /\ map'.opaque_points = map.opaque_points
                    /\ map'.width = map.width /\ map'.height = map.height ]_vars

\* C8 witness: set_visible(-1, 1) was called, whose index is that of
\* (width-1, 0), and (width-1, 0) is not visible.
C8_Witness ==
    /\ call.op = "set_visible" /\ call.arg = IVec2(-1, 1)
    /\ to_index(map, call.arg) = to_index(map, IVec2(map.width - 1, 0))
    /\ ~is_visible(map, map.width - 1, 0)

\* ndc of an axis, as numerator a over denominator w.
StrictlyInside(a, w) == a > -w /\ a < w
Rejected(a, w) == a >= w \/ a < -w

\* C9 -- screen_to_world yields a value when both ndc axes are strictly
\* inside (-1,1), yields nothing when an axis is >= 1 or < -1; ndc exactly
\* -1 on an axis is accepted.
C9_ViewportRejection ==
    call.op = "screen_to_world"
    => LET ndc == ndc_of(call.arg)
           w == window_size
       IN  /\ (StrictlyInside(ndc.x, w.x) /\ StrictlyInside(ndc.y, w.y))
                => call.ret # NoPos
           /\ (Rejected(ndc.x, w.x) \/ Rejected(ndc.y, w.y))
                => call.ret = NoPos
           /\ (ndc.x = -w.x /\ ~Rejected(ndc.y, w.y)) => call.ret # NoPos
           /\ (ndc.y = -w.y /\ ~Rejected(ndc.x, w.x)) => call.ret # NoPos

\* C9 witness: a position with ndc.x exactly -1 was accepted.
C9_Witness ==
    /\ call.op = "screen_to_world"
    /\ ndc_of(call.arg).x = -window_size.x
    /\ call.ret # NoPos

\* C10 -- a run of update_cursor_pos without a pointer position, or with one
\* outside the viewport, leaves the cached cell, both planes and the
\* controller's state (what it last computed, and whether a radius change is
\* pending) unchanged.
C10_NoPointerNoUpdate ==
    [][ (IsCursorRun(ev') /\ ev'.ptr \in {"none", "rejected"})
        => /\ cursor_pos' = cursor_pos
           /\ map' = map
           /\ computed' = computed
           /\ view_range_changed' = view_range_changed ]_vars

\* World cells the pointer can select: the floored world position of every
\* accepted screen position.
FloorCells ==
    {floor_as_i32(screen_to_world(sp)) :
        sp \in {q \in ScreenPositions : screen_to_world(q) # NoPos}}

\* C11 -- world_to_map adds (width / 2, height / 2), integer division, to the
\* floored world cell, without any bounds check and without touching the Map;
\* for the 30x30 grid world cell (0,0) maps to (15,15); the mapping is
\* injective, so two selectable world cells are equal iff their grid cells are.
C11_WorldToMap ==
    /\ call.op = "world_to_map"
        => /\ call.ret = IVec2(call.arg.x + map.width \div 2,
                               call.arg.y + map.height \div 2)
           /\ world_to_map(map, call.arg) = call.ret
           /\ map = Map_new(size)
    /\ world_to_map(Map_new([w |-> TerminalSide, h |-> TerminalSide]),
                    IVec2(0, 0)) = IVec2(TerminalSide \div 2, TerminalSide \div 2)
    /\ TerminalSide \div 2 = 15
    /\ \A a \in FloorCells : \A b \in FloorCells :
          (world_to_map(map, a) = world_to_map(map, b)) <=> (a = b)

\* C11 witness: a world cell left of the grid was mapped to a grid cell
\* outside the grid.
C11_Witness ==
    /\ call.op = "world_to_map"
    /\ call.arg.x < 0
    /\ ~is_in_bounds(map, call.ret)

\* C13 -- update_cursor_pos clears and recomputes only if the cell differs
\* from the cached cell, or the current radius differs from the radius of the
\* latest computation, or nothing was computed yet.
C13_RecomputeOnlyWhenNeeded ==
    [][ (IsCursorRun(ev') /\ ev'.recompute)
        => \/ ev'.cell # cursor_pos
           \/ computed = NoCompute
           \/ computed.radius # view_range ]_vars

\* C14 -- after update_view_range the radius is the radius before plus the
\* sum, over all scroll events of the frame, of each amount rounded to an
\* integer away from zero (0.5 -> +1, -0.5 -> -1).
C14_ScrollAccumulation ==
    [][ ev'.sys = "update_view_range"
        => view_range' = view_range + SumAway(ev'.events) ]_vars

\* C12 -- toggle_opaque is only ever reached with an in-bounds coordinate:
\* no index is out of range in setup's wall placement or in toggle_walls, a
\* run of toggle_walls changes the Map only when the cached cell maps inside
\* the grid, and a click while it maps outside changes nothing.
C12_TogglePrecondition ==
    [][ /\ ~panicked'
        /\ (ev'.sys = "toggle_walls" /\ map' # map)
            => /\ ev'.click
               /\ is_in_bounds(map, world_to_map(map, cursor_pos))
        /\ (/\ ev'.sys = "toggle_walls" /\ ev'.click
            /\ ~is_in_bounds(map, world_to_map(map, cursor_pos)))
            => map' = map ]_vars

\* C12 witness: a click arrived while the cached cell, selected earlier by
\* the pointer, maps outside the grid, and the grid has a wall.
C12_Witness ==
    /\ ev.sys = "toggle_walls" /\ ev.click
    /\ pointer_seen
    /\ ~is_in_bounds(map, world_to_map(map, cursor_pos))
    /\ \E i \in DOMAIN map.opaque_points : map.opaque_points[i]

\* Cells on which the latest computation called set_visible inside the grid.
MarkedInBounds(m) ==
    {p \in Lit(computed.origin, computed.radius, m) : is_in_bounds(m, p)}

\* C15 -- right after a recompute a cell is visible iff the computation of
\* that recompute called set_visible on it inside the grid: the plane was
\* cleared first, so nothing lit from an earlier cell or radius remains.
C15_ClearPrecedesCompute ==
    (IsCursorRun(ev) /\ ev.recompute)
    => \A p \in Probe :
          is_visible(map, p.x, p.y) <=> p \in MarkedInBounds(map)

\* C15 witness: a recompute left a cell dark that was visible before it.
C15_Witness ==
    /\ IsCursorRun(ev) /\ ev.recompute /\ ev.dropped
    /\ SomeVisible(map)

InBoundsCells(m) == {p \in Probe : is_in_bounds(m, p)}

IndexInjective(m) ==
    \A p \in InBoundsCells(m) : \A q \in InBoundsCells(m) :
        to_index(m, p) = to_index(m, q) => p = q

WideIndexInjective == IndexInjective(Map_new(probe_size))

\* C16 -- the opaque plane changes only in setup's wall placement and in a
\* click of toggle_walls, and there only at the index of the toggled in-bounds
\* cell; distinct in-bounds cells have distinct indices; the visible plane
\* changes only in a recompute of update_cursor_pos, so a run of toggle_walls
\* leaves it as it was.
C16_PlaneDiscipline ==
    [][ /\ map'.opaque_points # map.opaque_points
            => \/ ev'.sys = "setup"
               \/ /\ ev'.sys = "toggle_walls" /\ ev'.click
                  /\ LET p == world_to_map(map, cursor_pos)
                     IN  /\ is_in_bounds(map, p)
                         /\ map'.opaque_points =
                                [map.opaque_points EXCEPT ![to_index(map, p)] = ~@]
        /\ map'.visible_points # map.visible_points
            => IsCursorRun(ev') /\ ev'.recompute
        /\ ev'.sys = "toggle_walls" => map'.visible_points = map.visible_points
        /\ IndexInjective(map)
        /\ WideIndexInjective ]_vars

\* C16 witness: a click turned a visible cell into a wall while cells are
\* visible.
C16_Witness ==
    /\ ev.sys = "toggle_walls" /\ ev.click
    /\ LET p == world_to_map(map, cursor_pos)
       IN  /\ is_in_bounds(map, p)
           /\ is_opaque(map, p)
           /\ is_visible(map, p.x, p.y)

\* C17 -- the cached cell is assigned exactly in the runs of update_cursor_pos
\* that recompute: no other step changes it, a run that does not recompute
\* leaves it alone, and after a recompute it is the world cell whose grid
\* cell the computation took as origin.
C17_CacheWithRecompute ==
    [][ /\ cursor_pos' # cursor_pos => (IsCursorRun(ev') /\ ev'.recompute)
        /\ IsCursorRun(ev')
            => /\ ev'.wrote_cursor <=> ev'.recompute
               /\ ~ev'.recompute => cursor_pos' = cursor_pos
               /\ ev'.recompute
                    => /\ cursor_pos' = ev'.cell
                       /\ computed'.origin = world_to_map(map, cursor_pos') ]_vars

\* C17 witness: a recompute moved the cached cell to a new cell.
C17_Witness ==
    /\ IsCursorRun(ev) /\ ev.recompute /\ ev.wrote_cursor
    /\ cursor_pos = ev.cell
    /\ cursor_pos # IVec2(0, 0)
    /\ computed.origin = world_to_map(map, cursor_pos)

\* C18 -- the view range goes to 0 and below like any other value: the
\* deltas are added without clamping and nothing fails, and a run of
\* update_cursor_pos that finds the cell moved or the view range written
\* still clears and recomputes, handing the view range over as it is.
C18_DegenerateRadius ==
    [][ /\ ~panicked'
        /\ (ev'.sys = "update_view_range" /\ ~HasZero(ev'.events))
            => view_range' = view_range + SumDeltas(ev'.events)
        /\ (/\ IsCursorRun(ev') /\ ev'.ptr = "inside"
            /\ (ev'.cell # cursor_pos \/ view_range_changed))
            => /\ ev'.recompute
               /\ computed' = [origin |-> world_to_map(map, ev'.cell),
                               radius |-> view_range]
               /\ map' = compute(computed'.origin, view_range,
                                 clear_visible(map)) ]_vars

\* C18 witness: a recompute ran with a view range below zero and darkened
\* cells that were visible.
C18_Witness ==
    /\ IsCursorRun(ev) /\ ev.recompute /\ ev.dropped
    /\ view_range < 0
    /\ computed.radius = view_range

PlaneIndices(m) == 0..(m.width * m.height - 1)

\* C19 -- Map::new yields two planes of width * height entries, all false;
\* from then on, through wall placement, clicks and recomputes, both planes
\* keep exactly width * height entries and width and height keep their
\* values, so every in-bounds coordinate indexes inside both planes.
C19_StorageShape ==
    /\ ~started => map = [visible_points |-> [i \in PlaneIndices(map) |-> FALSE],
                          opaque_points  |-> [i \in PlaneIndices(map) |-> FALSE],
                          width |-> size.w, height |-> size.h]
    /\ DOMAIN map.visible_points = PlaneIndices(map)
    /\ DOMAIN map.opaque_points = PlaneIndices(map)
    /\ map.width = size.w /\ map.height = size.h
    /\ \A p \in InBoundsCells(map) :
          /\ ~IndexPanics(map.visible_points, to_index(map, p))
          /\ ~IndexPanics(map.opaque_points, to_index(map, p))

\* C19 witness: the visible plane was replaced by a recompute on a grid that
\* has walls, lit and dark cells.
C19_Witness ==
    /\ IsCursorRun(ev) /\ ev.recompute
    /\ \E i \in DOMAIN map.opaque_points : map.opaque_points[i]
    /\ \E i \in DOMAIN map.visible_points : map.visible_points[i]
    /\ \E i \in DOMAIN map.visible_points : ~map.visible_points[i]

====
